---- MODULE Spec2Model ----
(***************************************************************************)
(* The relay of src/main.rs: the main loop reads the lines signal-cli      *)
(* prints, decodes each one and spawns one analysis task per detected      *)
(* link; every task runs the pipeline of analyze_video and sends its       *)
(* result into the mpsc channel; the stdin writer task is the only         *)
(* receiver of that channel and writes one JSON-RPC request per reply.     *)
(***************************************************************************)
EXTENDS Naturals, Sequences, FiniteSets

(***************************************************************************)
(* Bounds of the model.                                                    *)
(***************************************************************************)
\* lines the transport prints before it falls silent (relay started empty)
MaxLines == 2
\* lines the transport prints in the runs that start from a backlog
BacklogLines == 1
\* lines the transport prints in the runs that draw from every line shape
DecodeLines == 1
\* lines the transport prints in the runs that draw from every output of opencode
ReplyLines == 1

(***************************************************************************)
(* Program constants.                                                      *)
(***************************************************************************)
\* mpsc::channel::<(String, String)>(32)
Capacity == 32
\* line.len() > 300: the raw JSON preview
PreviewLen == 300
\* text.len().min(100): the extracted text preview
TextPreviewLen == 100

None == "None"

(***************************************************************************)
(* Message text.  A text is a sequence of whitespace-separated words; a    *)
(* word is either plain or a URL.  Both patterns end in [^\s]+, so a match *)
(* never extends over a word boundary and the regexes are decided word by  *)
(* word.  cut says where byte TextPreviewLen of the text falls.            *)
(***************************************************************************)
Plain == [scheme |-> None, sub |-> None, host |-> None, seg |-> None, rest |-> "look"]

Url(scheme, sub, host, seg, rest) ==
    [scheme |-> scheme, sub |-> sub, host |-> host, seg |-> seg, rest |-> rest]

TikTokVm    == Url("https", "vm.", "tiktok.com", None, "ZMabc/")
TikTokWww   == Url("http", "www.", "tiktok.com", None, "@u/video/7")
TikTokBare  == Url("https", None, "tiktok.com", None, None)
InstaReel   == Url("https", "www.", "instagram.com", "reel", "Cx1/")
InstaStory  == Url("https", None, "instagram.com", "stories", "u/9")
OtherSite   == Url("https", "www.", "example.com", None, "v")

Text(words, cut) == [words |-> words, cut |-> cut]

\* r"https?://(?:www\.|vm\.|vt\.|m\.|t\.)?tiktok\.com/[^\s]+"
TikTokSubs == {"www.", "vm.", "vt.", "m.", "t."}

tiktok_regex(w) ==
    /\ w.scheme \in {"http", "https"}
    /\ w.sub \in TikTokSubs \cup {None}
    /\ w.host = "tiktok.com"
    /\ (w.seg # None \/ w.rest # None)

\* r"https?://(?:www\.)?instagram\.com/(?:reel|p|t|v)/[^\s]+"
InstaSegs == {"reel", "p", "t", "v"}

instagram_regex(w) ==
    /\ w.scheme \in {"http", "https"}
    /\ w.sub \in {"www.", None}
    /\ w.host = "instagram.com"
    /\ w.seg \in InstaSegs
    /\ w.rest # None

\* Regex::find: the leftmost match as <<word>>, <<>> when no word matches;
\* hits are the positions of the words the pattern matches
FindFirst(words, hits) ==
    IF hits = {} THEN <<>>
    ELSE <<words[CHOOSE i \in hits : \A j \in hits : i <= j]>>

(***************************************************************************)
(* Input lines.  A line is described by what the loop looks at: shape is   *)
(* "empty" (no bytes), "blank" (whitespace only), "garbage" (bytes that    *)
(* serde_json rejects) or "json" (bytes that deserialize to RpcResponse);  *)
(* cut says where byte PreviewLen of the line falls: "short" (the line has *)
(* at most PreviewLen bytes), "boundary" (longer, byte PreviewLen starts a *)
(* character) or "split" (longer, byte PreviewLen is inside a multi-byte   *)
(* character); rpc is the deserialized value, <<>> when there is none.     *)
(* An Option<T> over records is <<>> or <<t>>; over strings, None or s.    *)
(***************************************************************************)
Line(shape, cut, rpc) == [shape |-> shape, cut |-> cut, rpc |-> rpc]

NoLine == Line("none", "short", <<>>)

RpcResponse(method, params) == [method |-> method, params |-> params]

RpcParams(envelope) == [envelope |-> envelope]

Envelope(num, uuid, data, sync) ==
    [source_number |-> num, source_uuid |-> uuid,
     data_message |-> data, sync_message |-> sync]

DataMessage(message) == [message |-> message]

SyncMessage(sent) == [sent_message |-> sent]

SentMessage(destination, message) ==
    [destination |-> destination, message |-> message]

Receive(env) == Line("json", "short", <<RpcResponse("receive", <<RpcParams(<<env>>)>>)>>)

Numbers == {"+1555"}
Uuids   == {"uuid-9"}

LinkTikTok == Text(<<Plain, TikTokVm, Plain>>, "short")
LinkInsta  == Text(<<InstaReel>>, "short")
LinkBoth   == Text(<<InstaReel, TikTokWww>>, "short")
NoLink     == Text(<<Plain, OtherSite>>, "short")
NearMiss   == Text(<<TikTokBare, InstaStory>>, "short")
LongSplit  == Text(<<TikTokVm, Plain>>, "split")
LongLink   == Text(<<Plain, InstaReel>>, "boundary")
LinkBothTikTokFirst == Text(<<Plain, TikTokVm, InstaReel, TikTokWww>>, "short")

Envelopes ==
    {Envelope(n, u, d, s) :
        n \in Numbers \cup {None}, u \in Uuids \cup {None},
        d \in {<<>>, <<DataMessage(<<>>)>>, <<DataMessage(<<LinkTikTok>>)>>},
        s \in {<<>>, <<SyncMessage(<<>>)>>}
              \cup {<<SyncMessage(<<SentMessage(dst, m)>>)>> :
                       dst \in Numbers \cup Uuids \cup {None},
                       m \in {<<>>, <<LinkInsta>>}}}

\* lines that never reach the envelope, lines whose length matters, and
\* envelopes with the other texts
OddLines ==
    {Line("empty", "short", <<>>), Line("blank", "short", <<>>),
     Line("blank", "split", <<>>), Line("garbage", "short", <<>>),
     Line("garbage", "boundary", <<>>), Line("garbage", "split", <<>>),
     Line("json", "short", <<RpcResponse(None, <<>>)>>),
     Line("json", "short", <<RpcResponse("receipt", <<RpcParams(<<>>)>>)>>),
     Line("json", "split", <<RpcResponse("receipt", <<>>)>>),
     Line("json", "short", <<RpcResponse("receive", <<>>)>>),
     Line("json", "short", <<RpcResponse("receive", <<RpcParams(<<>>)>>)>>),
     Line("json", "boundary",
          <<RpcResponse("receive", <<RpcParams(<<Envelope("+1555", None,
              <<DataMessage(<<LongLink>>)>>, <<>>)>>)>>)>>),
     Line("json", "split",
          <<RpcResponse("receive", <<RpcParams(<<Envelope("+1555", None,
              <<DataMessage(<<LinkTikTok>>)>>, <<>>)>>)>>)>>),
     Line("json", "short",
          <<RpcResponse("send", <<RpcParams(<<Envelope("+1555", None,
              <<DataMessage(<<LinkTikTok>>)>>, <<>>)>>)>>)>>),
     Receive(Envelope("+1555", None, <<DataMessage(<<LongSplit>>)>>, <<>>)),
     Receive(Envelope(None, "uuid-9", <<DataMessage(<<NearMiss>>)>>, <<>>)),
     Receive(Envelope("+1555", "uuid-9", <<DataMessage(<<NoLink>>)>>, <<>>)),
     Receive(Envelope("+1555", None, <<DataMessage(<<LinkBoth>>)>>, <<>>)),
     Receive(Envelope(None, "uuid-9", <<DataMessage(<<LinkBothTikTokFirst>>)>>, <<>>)),
     Receive(Envelope("+1555", None, <<DataMessage(<<NoLink>>)>>,
                      <<SyncMessage(<<SentMessage("+1555", <<LinkInsta>>)>>)>>)),
     Receive(Envelope("+1555", None, <<DataMessage(<<LinkBoth>>)>>,
                      <<SyncMessage(<<SentMessage("+1777", <<LinkInsta>>)>>)>>)),
     Receive(Envelope("+1555", None, <<>>,
                      <<SyncMessage(<<SentMessage("+1777", <<LinkInsta>>)>>)>>)),
     Receive(Envelope(None, "uuid-9", <<>>,
                      <<SyncMessage(<<SentMessage("uuid-9", <<NoLink>>)>>)>>)),
     Receive(Envelope(None, "uuid-9", <<>>,
                      <<SyncMessage(<<SentMessage("uuid-9", <<LinkBoth>>)>>)>>))}

\* every line shape: the runs that settle what one line does
AllLines == OddLines \cup {Receive(e) : e \in Envelopes}

\* the lines of the runs that follow the tasks and the writer
RelayLines ==
    {Line("blank", "short", <<>>),
     Line("garbage", "short", <<>>),
     Line("garbage", "split", <<>>),
     Receive(Envelope("+1555", None, <<DataMessage(<<LinkTikTok>>)>>, <<>>)),
     Receive(Envelope(None, "uuid-9", <<>>,
                      <<SyncMessage(<<SentMessage("uuid-9", <<LinkInsta>>)>>)>>)),
     Receive(Envelope("+1555", "uuid-9", <<DataMessage(<<NoLink>>)>>, <<>>))}

(***************************************************************************)
(* One iteration of the main loop on a line, as a pure function: what the  *)
(* iteration ends in.  "skip" is a `continue` (or the fall-through of the  *)
(* last else), "panic" a slice that is not on a character boundary,        *)
(* "spawn" a tokio::spawn of an analysis task for (source, url).           *)
(***************************************************************************)
Skip(why) == [kind |-> "skip", why |-> why, source |-> None, url |-> Plain]

Panic(why) == [kind |-> "panic", why |-> why, source |-> None, url |-> Plain]

Spawn(platform, source, url) ==
    [kind |-> "spawn", why |-> platform, source |-> source, url |-> url]

\* line.trim().is_empty()
IsBlank(l) == l.shape \in {"empty", "blank"}

\* &line[..300] when line.len() > 300: panics inside a character
PreviewPanics(l) == l.cut = "split"

\* &text[..text.len().min(100)]: panics inside a character
TextPreviewPanics(text) == text.cut = "split"

\* a source selection that prefers the UUID
SourceUuidFirst(envelope) ==
    IF envelope.source_uuid # None THEN envelope.source_uuid
    ELSE envelope.source_number

\* envelope.source_number.clone().or_else(|| envelope.source_uuid.clone())
SourceOf(envelope) ==
    IF envelope.source_number # None THEN envelope.source_number
    ELSE envelope.source_uuid

\* text extraction that takes every sentMessage, whatever its destination
TextContentAnyDestination(envelope, source) ==
    IF envelope.data_message # <<>>
      THEN envelope.data_message[1].message
    ELSE IF envelope.sync_message # <<>> /\ envelope.sync_message[1].sent_message # <<>>
      THEN envelope.sync_message[1].sent_message[1].message
    ELSE <<>>

\* text extraction that turns to the sentMessage when the dataMessage has no text
TextContentOrSync(envelope, source) ==
    IF envelope.data_message # <<>> /\ envelope.data_message[1].message # <<>>
      THEN envelope.data_message[1].message
    ELSE IF envelope.sync_message # <<>>
              /\ envelope.sync_message[1].sent_message # <<>>
              /\ envelope.sync_message[1].sent_message[1].destination = source
      THEN envelope.sync_message[1].sent_message[1].message
    ELSE <<>>

\* the value of text_content after the dataMessage / syncMessage branches
TextContent(envelope, source) ==
    IF envelope.data_message # <<>>
      THEN envelope.data_message[1].message
    ELSE IF envelope.sync_message # <<>>
      THEN LET sync == envelope.sync_message[1]
           IN  IF sync.sent_message # <<>>
                 THEN LET sent == sync.sent_message[1]
                      IN  IF sent.destination = source THEN sent.message
                          ELSE <<>>
               ELSE <<>>
    ELSE <<>>

\* a classification that looks for the Instagram pattern first
ClassifyInstagramFirst(text, source) ==
    LET tt == FindFirst(text.words,
                        {i \in DOMAIN text.words : tiktok_regex(text.words[i])})
        ig == FindFirst(text.words,
                        {i \in DOMAIN text.words : instagram_regex(text.words[i])})
    IN  IF ig # <<>> THEN Spawn("instagram", source, ig[1])
        ELSE IF tt # <<>> THEN Spawn("tiktok", source, tt[1])
        ELSE Skip("no link")

\* the if / else if / else on the two regexes
Classify(text, source) ==
    LET tt == FindFirst(text.words,
                        {i \in DOMAIN text.words : tiktok_regex(text.words[i])})
        ig == FindFirst(text.words,
                        {i \in DOMAIN text.words : instagram_regex(text.words[i])})
    IN  IF tt # <<>> THEN Spawn("tiktok", source, tt[1])
        ELSE IF ig # <<>> THEN Spawn("instagram", source, ig[1])
        ELSE Skip("no link")

\* from the envelope on
OnEnvelope(envelope) ==
    LET source == SourceOf(envelope)
    IN  IF source = None THEN Skip("no source")
        ELSE LET text_content == TextContent(envelope, source)
             IN  IF text_content = <<>> THEN Skip("no text")
                 ELSE IF TextPreviewPanics(text_content[1]) THEN Panic("text preview")
                 ELSE Classify(text_content[1], source)

\* the body of the while loop
Iteration(l) ==
    IF IsBlank(l) THEN Skip("blank")
    ELSE IF PreviewPanics(l) THEN Panic("line preview")
    ELSE IF l.rpc = <<>> THEN Skip("parse error")
    ELSE LET rpc_msg == l.rpc[1]
         IN  IF rpc_msg.method # "receive" THEN Skip("method")
             ELSE IF rpc_msg.params = <<>> THEN Skip("no params")
             ELSE IF rpc_msg.params[1].envelope = <<>> THEN Skip("no envelope")
             ELSE OnEnvelope(rpc_msg.params[1].envelope[1])

(***************************************************************************)
(* The output of opencode and the reply text made of it (lines 290-297).   *)
(* Only lengths and character boundaries matter, so the bytes of stdout    *)
(* are kept as a sequence of runs: n bytes of ASCII whitespace ("ws"), n   *)
(* characters of w bytes each ("char"), or n bytes that are not UTF-8      *)
(* ("bad").  A reply text is the kept runs and whether the marker          *)
(* "...\n\n(truncated)" follows them.                                      *)
(***************************************************************************)
\* if trimmed.len() > 3000 / &trimmed[..3000]
MaxReply == 3000

Run(kind, w, n) == [kind |-> kind, w |-> w, n |-> n]

\* String::from_utf8_lossy: every invalid byte becomes U+FFFD, 3 bytes long
from_utf8_lossy(bytes) ==
    [k \in DOMAIN bytes |->
        IF bytes[k].kind = "bad" THEN Run("char", 3, bytes[k].n) ELSE bytes[k]]

RECURSIVE trim_start(_)
trim_start(runs) ==
    IF runs # <<>> /\ Head(runs).kind = "ws" THEN trim_start(Tail(runs)) ELSE runs

RECURSIVE trim_end(_)
trim_end(runs) ==
    IF runs # <<>> /\ runs[Len(runs)].kind = "ws"
      THEN trim_end(SubSeq(runs, 1, Len(runs) - 1))
    ELSE runs

\* str::trim
trim(runs) == trim_end(trim_start(runs))

\* str::len: the length in bytes
RECURSIVE len(_)
len(runs) ==
    IF runs = <<>> THEN 0 ELSE Head(runs).w * Head(runs).n + len(Tail(runs))

\* str::is_char_boundary(b), for b <= len(runs)
RECURSIVE is_char_boundary(_, _)
is_char_boundary(runs, b) ==
    IF b = 0 \/ runs = <<>> THEN TRUE
    ELSE LET r == Head(runs)
         IN  IF b >= r.w * r.n THEN is_char_boundary(Tail(runs), b - r.w * r.n)
             ELSE b % r.w = 0

\* &runs[..b], for a b that is a character boundary
RECURSIVE Slice(_, _)
Slice(runs, b) ==
    IF b = 0 \/ runs = <<>> THEN <<>>
    ELSE LET r == Head(runs)
         IN  IF b >= r.w * r.n THEN <<r>> \o Slice(Tail(runs), b - r.w * r.n)
             ELSE <<Run(r.kind, r.w, b \div r.w)>>

ReplyText(body, marker) == [body |-> body, marker |-> marker]

\* lines 290-297 on the bytes of stdout: <<reply text>>, or <<>> when the slice
\* &trimmed[..3000] panics
Truncated(stdout) ==
    LET trimmed == trim(from_utf8_lossy(stdout))
    IN  IF len(trimmed) > MaxReply
          THEN IF is_char_boundary(trimmed, MaxReply)
                 THEN <<ReplyText(Slice(trimmed, MaxReply), TRUE)>>
               ELSE <<>>
        ELSE <<ReplyText(trimmed, FALSE)>>

\* "Opencode Failed: ", 17 characters of one byte
FailedPrefix == <<Run("char", 1, 17)>>

\* lines 299-300: format!("Opencode Failed: {}", err.trim()), of any length
FailureText(stderr) ==
    ReplyText(FailedPrefix \o trim(from_utf8_lossy(stderr)), FALSE)

\* what opencode may print on its standard error when it exits non-zero
PlainStderr == <<Run("char", 1, 19), Run("ws", 1, 1)>>

AllStderrs ==
    {PlainStderr,
     <<>>,
     <<Run("char", 1, MaxReply - 17)>>,
     <<Run("char", 1, MaxReply + 100), Run("ws", 1, 1)>>}

\* what opencode may print
PlainStdout == <<Run("char", 1, 7), Run("ws", 1, 1)>>

AllStdouts ==
    {PlainStdout,
     <<>>,
     <<Run("ws", 1, 2), Run("char", 1, 7), Run("ws", 1, 1), Run("char", 2, 4), Run("ws", 1, 1)>>,
     <<Run("char", 1, MaxReply)>>,
     <<Run("char", 1, MaxReply), Run("ws", 1, 1)>>,
     <<Run("char", 1, MaxReply + 1)>>,
     <<Run("char", 1, MaxReply - 10), Run("bad", 1, 3)>>,
     <<Run("char", 2, (MaxReply \div 2) + 100)>>,
     <<Run("char", 1, MaxReply - 1), Run("char", 2, 1), Run("char", 1, 10)>>}

(***************************************************************************)
(* State.                                                                  *)
(***************************************************************************)
VARIABLES
    mainPc,     \* the main task: "reading" (awaiting next_line), "processing"
                \* (inside the loop body), "exited" (main returned), "panicked"
    line,       \* the loop's `line`, NoLine outside the loop body
    inputs,     \* what the outside feeds this run: "relay", "all" (every line
                \* shape), "reply" (every output of opencode)
    pending,    \* how many lines the transport still prints
    tasks,      \* the analysis tasks spawned so far, in spawn order
    workdir,    \* /tmp/brainrot_summarizer: whose video and frames it holds
    chan,       \* the mpsc channel: replies sent and not yet received
    writer,     \* the stdin writer task: its position and the reply it holds
    stdin,      \* ChildStdin: the pieces the pipe accepted, in order
    stdinOpen,  \* whether the transport still reads its standard input
    sent,       \* history: the ids of the replies sent into the channel, in order
    received    \* history: the ids of the replies the writer received, in order

vars == <<mainPc, line, inputs, pending, tasks, workdir, chan, writer, stdin,
          stdinOpen, sent, received>>

mainVars == <<mainPc, line, pending>>
taskVars == <<tasks, workdir>>
writerVars == <<writer, stdin, received>>

\* the process lives until main returns or panics: the runtime is dropped with
\* main's future, and with it every spawned task and (kill_on_drop) the transport
Running == mainPc \in {"reading", "processing"}

Task(source, url, pc, stage, result) ==
    [source |-> source, url |-> url, pc |-> pc, stage |-> stage, result |-> result]

\* what analyze_video returned as Ok: the trimmed opencode output (about the
\* frames opencode found) or "Opencode Failed: <stderr>"
Said(about, stdout, text) ==
    [kind |-> "content", about |-> about, stdout |-> stdout, text |-> text]
Content(about) == Said(about, PlainStdout, Truncated(PlainStdout)[1])
Failed(stderr) ==
    [kind |-> "failure", about |-> <<>>, stderr |-> stderr,
     text |-> FailureText(stderr)]
OpencodeFailed == Failed(PlainStderr)

\* (reply_target, result), with the id of the sending task as a label
Reply(id, recipient, message) ==
    [id |-> id, recipient |-> recipient, message |-> message]

EmptyDir == [video |-> <<>>, frames |-> <<>>]

IdleWriter == [pc |-> "recv", cur |-> <<>>]

TaskIds == DOMAIN tasks

Ended(t) == t.pc \in {"done", "failed"}

(***************************************************************************)
(* Initial states.                                                         *)
(***************************************************************************)
Fresh ==
    /\ mainPc = "reading"
    /\ line = NoLine
    /\ tasks = <<>>
    /\ workdir = EmptyDir
    /\ chan = <<>>
    /\ writer = IdleWriter
    /\ stdin = <<>>
    /\ stdinOpen = TRUE
    /\ sent = <<>>
    /\ received = <<>>

Init ==
    /\ Fresh
    /\ inputs = "relay"
    /\ pending = MaxLines

\* two links were handled before: the first task has sent its reply, which is
\* still in the channel, the second one's opencode never returned; lines of any
\* shape arrive next
InitDecode ==
    /\ mainPc = "reading"
    /\ line = NoLine
    /\ tasks = <<Task("+1555", TikTokVm, "done", None, <<Content(<<TikTokVm>>)>>),
                 Task("uuid-9", InstaReel, "hung", None, <<>>)>>
    /\ workdir = [video |-> <<InstaReel>>, frames |-> <<InstaReel>>]
    /\ chan = <<Reply(1, "+1555", Content(<<TikTokVm>>))>>
    /\ writer = IdleWriter
    /\ stdin = <<>>
    /\ stdinOpen = TRUE
    /\ sent = <<1>>
    /\ received = <<>>
    /\ inputs = "all"
    /\ pending = DecodeLines

\* Capacity tasks have sent their replies and the writer has not run since: the
\* channel is full; one more task waits in send for a slot, another one's yt-dlp
\* never returned
InitBacklog ==
    /\ mainPc = "reading"
    /\ line = NoLine
    /\ tasks = [i \in 1..Capacity |->
                  Task("+1555", TikTokVm, "done", None, <<Content(<<TikTokVm>>)>>)]
               \o <<Task("uuid-9", InstaReel, "hung", None, <<>>),
                    Task("+1555", TikTokVm, "send", None, <<Content(<<TikTokVm>>)>>)>>
    /\ workdir = [video |-> <<TikTokVm>>, frames |-> <<TikTokVm>>]
    /\ chan = [i \in 1..Capacity |-> Reply(i, "+1555", Content(<<TikTokVm>>))]
    /\ writer = IdleWriter
    /\ stdin = <<>>
    /\ stdinOpen = TRUE
    /\ sent = [i \in 1..Capacity |-> i]
    /\ received = <<>>
    /\ inputs = "relay"
    /\ pending = BacklogLines

\* one link was handled before and its task has reached opencode, with its
\* frames in the directory; opencode may print any of AllStdouts
InitReply ==
    /\ mainPc = "reading"
    /\ line = NoLine
    /\ tasks = <<Task("+1555", TikTokVm, "opencode", None, <<>>)>>
    /\ workdir = [video |-> <<TikTokVm>>, frames |-> <<TikTokVm>>]
    /\ chan = <<>>
    /\ writer = IdleWriter
    /\ stdin = <<>>
    /\ stdinOpen = TRUE
    /\ sent = <<>>
    /\ received = <<>>
    /\ inputs = "reply"
    /\ pending = ReplyLines

(***************************************************************************)
(* The main task (main, lines 106-243).                                    *)
(***************************************************************************)
\* a loop that joins the tasks it spawned before it reads on
LoopReadyJoined == mainPc = "reading" /\ \A i \in DOMAIN tasks : Ended(tasks[i])

\* the loop's only await is reader.next_line(): a JoinHandle is never awaited
\* and the main task never sends into the channel
LoopReady == mainPc = "reading"

\* a dispatch that puts the new task before the ones spawned earlier
SpawnTaskFirst(ts, source, url) == <<Task(source, url, "start", None, <<>>)>> \o ts

\* tokio::spawn(async move { match analyze_video(&url).await ... })
SpawnTask(ts, source, url) == Append(ts, Task(source, url, "start", None, <<>>))

\* the lines the transport may print
Feed == IF inputs = "all" THEN AllLines ELSE RelayLines

\* what opencode may print in this run
Stdouts == IF inputs = "reply" THEN AllStdouts ELSE {PlainStdout}

\* what opencode may print on its standard error in this run
Stderrs == IF inputs = "reply" THEN AllStderrs ELSE {PlainStderr}

\* reader.next_line() returns Ok(Some(line))
ReadLine ==
    /\ LoopReady
    /\ pending > 0
    /\ \E l \in Feed :
         /\ line' = l
         /\ mainPc' = "processing"
         /\ pending' = pending - 1
    /\ UNCHANGED <<inputs, taskVars, chan, writerVars, stdinOpen, sent>>

\* the loop body on `line`, up to the next next_line()
ProcessLine ==
    /\ mainPc = "processing"
    /\ LET it == Iteration(line)
       IN  /\ mainPc' = IF it.kind = "panic" THEN "panicked" ELSE "reading"
           /\ tasks' = IF it.kind = "spawn" THEN SpawnTask(tasks, it.source, it.url)
                       ELSE tasks
    /\ line' = NoLine
    /\ UNCHANGED <<inputs, pending, workdir, chan, writerVars, stdinOpen, sent>>

\* a loop that takes the end of the stream for one more, empty line
ReadEndAsEmptyLine ==
    /\ LoopReady
    /\ mainPc' = "processing"
    /\ UNCHANGED <<line, inputs, pending, taskVars, chan, writerVars, stdinOpen, sent>>

\* reader.next_line() returns Ok(None) or Err(_): the loop ends, main returns Ok(())
ReadEnd ==
    /\ LoopReady
    /\ mainPc' = "exited"
    /\ UNCHANGED <<line, inputs, pending, taskVars, chan, writerVars, stdinOpen, sent>>

(***************************************************************************)
(* An analysis task (lines 209-218 / 227-236) running analyze_video.       *)
(* Every external command ends in one of Outcomes: it exits 0, exits       *)
(* non-zero, cannot be spawned, or never returns.                          *)
(***************************************************************************)
Outcomes == {"ok", "nonzero", "nospawn", "hang"}

\* Err(e): the task prints the error with eprintln! and ends
Fail(t, stage) == [t EXCEPT !.pc = "failed", !.stage = stage]

Hang(t) == [t EXCEPT !.pc = "hung"]

\* Ok(result): the task goes on to tx_clone.send((reply_target, result))
Return(t, message) == [t EXCEPT !.pc = "send", !.result = <<message>>]

\* lines 246-255: remove_dir_all, then create_dir_all of the directory and of subs
PrepareDir(i) ==
    /\ Running
    /\ tasks[i].pc = "start"
    /\ workdir' = EmptyDir
    /\ \E created \in BOOLEAN :
         tasks' = [tasks EXCEPT ![i] =
                     IF created THEN [@ EXCEPT !.pc = "yt-dlp"]
                     ELSE Fail(@, "create_dir")]
    /\ UNCHANGED <<mainVars, inputs, chan, writerVars, stdinOpen, sent>>

\* lines 336-358: yt-dlp runs in the directory and writes video.<ext> there
RunYtDlp(i) ==
    /\ Running
    /\ tasks[i].pc = "yt-dlp"
    /\ \E o \in Outcomes :
         /\ tasks' = [tasks EXCEPT ![i] =
                        CASE o = "ok" -> [@ EXCEPT !.pc = "read_dir"]
                          [] o = "nonzero" -> Fail(@, "yt-dlp")
                          [] o = "nospawn" -> Fail(@, "yt-dlp")
                          [] OTHER -> Hang(@)]
         /\ workdir' = IF o = "ok" THEN [workdir EXCEPT !.video = <<tasks[i].url>>]
                       ELSE workdir
    /\ UNCHANGED <<mainVars, inputs, chan, writerVars, stdinOpen, sent>>

\* lines 360-410: read_dir looks for video.*, then whisper when no subtitles came
FindVideo(i) ==
    /\ Running
    /\ tasks[i].pc = "read_dir"
    /\ \E whisper \in Outcomes \cup {"subs"} :
         tasks' = [tasks EXCEPT ![i] =
                     CASE workdir.video = <<>> -> Fail(@, "no video")
                       [] whisper = "nospawn" -> Fail(@, "whisper")
                       [] whisper = "hang" -> Hang(@)
                       [] OTHER -> [@ EXCEPT !.pc = "ffmpeg"]]
    /\ UNCHANGED <<mainVars, inputs, workdir, chan, writerVars, stdinOpen, sent>>

\* extract_frames, lines 304-329: ffmpeg reads video.<ext> and writes frames/
RunFfmpeg(i) ==
    /\ Running
    /\ tasks[i].pc = "ffmpeg"
    /\ \E o \in Outcomes :
         LET ok == o = "ok" /\ workdir.video # <<>>
         IN  /\ tasks' = [tasks EXCEPT ![i] =
                            CASE ok -> [@ EXCEPT !.pc = "opencode"]
                              [] o = "hang" -> Hang(@)
                              [] OTHER -> Fail(@, "ffmpeg")]
             /\ workdir' = IF ok THEN [workdir EXCEPT !.frames = workdir.video]
                           ELSE workdir
    /\ UNCHANGED <<mainVars, inputs, chan, writerVars, stdinOpen, sent>>

\* lines 279-301: opencode reads frames/ and subs/; both exits give Ok(text)
RunOpencode(i) ==
    /\ Running
    /\ tasks[i].pc = "opencode"
    /\ \E o \in Outcomes, stdout \in Stdouts, stderr \in Stderrs :
         tasks' = [tasks EXCEPT ![i] =
                     CASE o = "ok" /\ Truncated(stdout) # <<>> ->
                            Return(@, Said(workdir.frames, stdout, Truncated(stdout)[1]))
                       [] o = "ok" -> Fail(@, "truncate")
                       [] o = "nonzero" ->
                            Return([@ EXCEPT !.stage = "opencode"], Failed(stderr))
                       [] o = "nospawn" -> Fail(@, "opencode")
                       [] OTHER -> Hang(@)]
    /\ UNCHANGED <<mainVars, inputs, workdir, chan, writerVars, stdinOpen, sent>>

\* a channel that hands out the newest value first
ChanSendFront(q, r) == <<r>> \o q

\* Sender::send: waits for a free slot, then the value is queued
ChanSend(q, r) == Append(q, r)

\* an unbounded channel
ChanAlwaysRoom(q) == TRUE

\* a permit is free: fewer than Capacity values are queued
ChanHasRoom(q) == Len(q) < Capacity

\* a request that lists the recipient twice
JsonRpcRequestTwice(recipient, message) ==
    [jsonrpc |-> "2.0", method |-> "send",
     params |-> [recipient |-> <<recipient, recipient>>, message |-> message],
     id |-> "100"]

\* the payload send_rpc serializes
JsonRpcRequest(recipient, message) ==
    [jsonrpc |-> "2.0", method |-> "send",
     params |-> [recipient |-> <<recipient>>, message |-> message], id |-> "100"]

\* one piece of json_str as the pipe accepted it: write_all may need several
\* poll_write calls; the final piece ends with the '\n' pushed at line 426
Piece(r, part, by) ==
    [id |-> r.id, part |-> part, by |-> by,
     request |-> JsonRpcRequest(r.recipient, r.message)]

\* a task that holds stdin itself and starts writing its request
DeliverDirect(r) ==
    /\ chan' = chan
    /\ sent' = Append(sent, r.id)
    /\ stdin' = Append(stdin, Piece(r, "head", "task"))

\* the one way a task's result leaves the task: into the channel, once there is
\* room; the task never touches stdin (it was moved into the writer task)
Deliver(r) ==
    /\ ChanHasRoom(chan)
    /\ chan' = ChanSend(chan, r)
    /\ sent' = Append(sent, r.id)
    /\ stdin' = stdin

\* tx_clone.send((reply_target, result)).await
SendReply(i) ==
    /\ Running
    /\ tasks[i].pc = "send"
    /\ Deliver(Reply(i, tasks[i].source, tasks[i].result[1]))
    /\ tasks' = [tasks EXCEPT ![i].pc = "done"]
    /\ UNCHANGED <<mainVars, inputs, workdir, writer, received, stdinOpen>>

(***************************************************************************)
(* The stdin writer task (lines 91-97) and send_rpc (lines 414-433).       *)
(***************************************************************************)
\* Receiver::recv: the oldest queued value
ChanRecv(q) == Head(q)

\* rx.recv().await returns Some((recipient, message))
WriterRecv ==
    /\ Running
    /\ writer.pc = "recv"
    /\ chan # <<>>
    /\ writer' = [pc |-> "write_all", cur |-> <<ChanRecv(chan)>>]
    /\ chan' = Tail(chan)
    /\ received' = Append(received, ChanRecv(chan).id)
    /\ UNCHANGED <<mainVars, inputs, taskVars, stdin, stdinOpen, sent>>

\* a write to the pipe: it succeeds only while the transport reads its standard
\* input; once a write has failed with a broken pipe every later one fails too
WriteOutcomes == IF stdinOpen THEN {TRUE, FALSE} ELSE {FALSE}

\* a writer task that returns on the first failed write
WriterWriteOrStop ==
    /\ Running
    /\ writer.pc = "write_all"
    /\ \E ok \in WriteOutcomes :
         /\ stdinOpen' = ok
         /\ stdin' = IF ok THEN Append(stdin, Piece(writer.cur[1], "head", "writer"))
                     ELSE stdin
         /\ writer' = IF ok THEN [writer EXCEPT !.pc = "flush"]
                      ELSE [pc |-> "ended", cur |-> <<>>]
    /\ UNCHANGED <<mainVars, inputs, taskVars, chan, sent, received>>

\* stdin.write_all(json_str.as_bytes()).await: the first piece goes out, or the
\* write fails, send_rpc returns Err, the writer logs it and returns to recv
WriterWrite ==
    /\ Running
    /\ writer.pc = "write_all"
    /\ \E ok \in WriteOutcomes :
         /\ stdinOpen' = ok
         /\ stdin' = IF ok THEN Append(stdin, Piece(writer.cur[1], "head", "writer"))
                     ELSE stdin
         /\ writer' = IF ok THEN [writer EXCEPT !.pc = "flush"] ELSE IdleWriter
    /\ UNCHANGED <<mainVars, inputs, taskVars, chan, sent, received>>

\* a writer that writes the reply it holds once more after the flush
WriterFlushAndRepeat ==
    /\ Running
    /\ writer.pc = "flush"
    /\ \E ok \in WriteOutcomes :
         /\ stdinOpen' = ok
         /\ stdin' = IF ok THEN Append(stdin, Piece(writer.cur[1], "tail", "writer"))
                     ELSE stdin
         /\ writer' = IF ok THEN [writer EXCEPT !.pc = "write_all"] ELSE IdleWriter
    /\ UNCHANGED <<mainVars, inputs, taskVars, chan, sent, received>>

\* the rest of write_all and stdin.flush().await
WriterFlush ==
    /\ Running
    /\ writer.pc = "flush"
    /\ \E ok \in WriteOutcomes :
         /\ stdinOpen' = ok
         /\ stdin' = IF ok THEN Append(stdin, Piece(writer.cur[1], "tail", "writer"))
                     ELSE stdin
    /\ writer' = IdleWriter
    /\ UNCHANGED <<mainVars, inputs, taskVars, chan, sent, received>>

(***************************************************************************)
(* Specifications.                                                         *)
(***************************************************************************)
Prepare  == \E i \in TaskIds : PrepareDir(i)
YtDlp    == \E i \in TaskIds : RunYtDlp(i)
ReadDir  == \E i \in TaskIds : FindVideo(i)
Ffmpeg   == \E i \in TaskIds : RunFfmpeg(i)
Opencode == \E i \in TaskIds : RunOpencode(i)
Send     == \E i \in TaskIds : SendReply(i)

TaskStep == Prepare \/ YtDlp \/ ReadDir \/ Ffmpeg \/ Opencode \/ Send

WriterStep == WriterRecv \/ WriterWrite \/ WriterFlush

Next ==
    \/ ReadLine
    \/ ProcessLine
    \/ ReadEnd
    \/ TaskStep
    \/ WriterStep

\* the relay from its start
Spec == Init /\ [][Next]_vars

\* the relay from its start, fed one line of any shape
SpecDecode == InitDecode /\ [][Next]_vars

\* the relay with a full channel
SpecBacklog == InitBacklog /\ [][Next]_vars

\* the relay with a task at opencode, whose output is any of AllStdouts
SpecReply == InitReply /\ [][Next]_vars

(***************************************************************************)
(* Properties.                                                             *)
(***************************************************************************)
\* the positions of reply i in the history of sends
SendsOf(i) == {k \in DOMAIN sent : sent[k] = i}

\* the complete lines on stdin that carry reply i
LinesOf(i) ==
    {k \in DOMAIN stdin :
        /\ stdin[k].id = i /\ stdin[k].part = "tail"
        /\ k > 1 /\ stdin[k - 1].id = i /\ stdin[k - 1].part = "head"}

PipelineStages == {"yt-dlp", "ffmpeg", "opencode"}

\* C1: whenever the pipeline of a task failed at the download, the frame
\* extraction or the analysis and the task has ended, the task has sent exactly
\* one reply, a failure description addressed to the source of its event.
C1_FailureIsReplied ==
    \A i \in TaskIds :
        (Ended(tasks[i]) /\ tasks[i].stage \in PipelineStages) =>
            /\ Cardinality(SendsOf(i)) = 1
            /\ tasks[i].result = <<OpencodeFailed>>
            /\ \A k \in DOMAIN chan :
                 chan[k].id = i => chan[k].recipient = tasks[i].source

\* nothing is left to do for the writer and the transport still reads
Drained ==
    /\ Running
    /\ stdinOpen
    /\ chan = <<>>
    /\ writer = IdleWriter

\* C2: every detected link whose pipeline invocation returned gets exactly one
\* reply written to the transport, addressed to the source.  Stated on the runs'
\* resting points: once the task of a link has ended and the writer has nothing
\* left to write (the relay runs, the transport reads), exactly one complete
\* line for that task is on stdin, and its recipient is the task's source.
C2_ReturnedIsWritten ==
    \A i \in TaskIds :
        (Ended(tasks[i]) /\ Drained) =>
            /\ Cardinality(LinesOf(i)) = 1
            /\ \A k \in LinesOf(i) :
                 stdin[k].request.params.recipient = <<tasks[i].source>>

\* the ids of a sequence of replies
Ids(q) == [k \in DOMAIN q |-> q[k].id]

\* the requests begun on stdin, in order
Heads == SelectSeq(stdin, LAMBDA p : p.part = "head")

\* C3: the writer takes the replies in exactly the order in which they were sent
\* into the channel, and the requests appear on stdin in that order: what the
\* writer has received is a prefix of what was sent, the channel holds the rest
\* in order, and the requests on stdin follow the order of receipt.
C3_Fifo ==
    /\ sent = received \o Ids(chan)
    /\ \A a, b \in DOMAIN Heads :
         a < b => \E x, y \in DOMAIN received :
                     /\ x < y
                     /\ received[x] = Heads[a].id
                     /\ received[y] = Heads[b].id

\* the reply of the second task was sent first, and both were written in the
\* order of the sends
C3_Witness ==
    /\ sent = <<2, 1>>
    /\ Len(stdin) = 4
    /\ Ids(stdin) = <<2, 2, 1, 1>>

C5_MainNeverWaits ==
    /\ mainPc \in {"reading", "processing", "exited", "panicked"}
    /\ (mainPc = "reading" /\ pending > 0) => ENABLED ReadLine
    /\ mainPc = "processing" => ENABLED ProcessLine

\* with the channel full all along, one task hung and one suspended in send, the
\* main loop has read a line and spawned a further task, and reads on
C5_Witness ==
    /\ received = <<>>
    /\ Len(chan) = Capacity
    /\ Len(tasks) = Capacity + 3
    /\ tasks[Capacity + 1].pc = "hung"
    /\ tasks[Capacity + 2].pc = "send"
    /\ tasks[Capacity + 3].pc = "start"
    /\ mainPc = "reading"

\* C6: tasks are independent: the reply a task produces depends only on its own
\* URL, whatever other tasks do to the working directory meanwhile: a content
\* reply describes the frames of the task's own video.
C6_TasksIndependent ==
    \A i \in TaskIds :
        (tasks[i].result # <<>> /\ tasks[i].result[1].kind = "content") =>
            tasks[i].result[1].about = <<tasks[i].url>>

\* C7: the channel never holds more than Capacity replies; a task that sends
\* while it is full stays suspended in send, with its reply, until a slot is
\* free, and can then send; no reply that was sent is dropped or duplicated by
\* the channel: what was sent is what the writer has received followed by what
\* is queued.
C7_BoundedChannel ==
    /\ Len(chan) <= Capacity
    /\ sent = received \o Ids(chan)
    /\ \A i \in TaskIds :
         /\ tasks[i].pc = "send" =>
              /\ SendsOf(i) = {}
              /\ tasks[i].result # <<>>
              /\ Running => (ENABLED SendReply(i) <=> Len(chan) < Capacity)
         /\ tasks[i].pc = "done" =>
              /\ Cardinality(SendsOf(i)) = 1
              /\ i \in {chan[k].id : k \in DOMAIN chan}
                       \cup {received[k] : k \in DOMAIN received}

\* the task that was suspended in send while the channel was full has sent its
\* reply after the writer freed a slot, and the channel is full again
C7_Witness ==
    /\ Len(tasks) >= Capacity + 2
    /\ tasks[Capacity + 2].pc = "done"
    /\ Len(received) = 1
    /\ Len(chan) = Capacity
    /\ chan[Capacity].id = Capacity + 2

(***************************************************************************)
(* What the claims say about a line, in the claims' own terms.             *)
(***************************************************************************)
\* the main task ends the iteration on `line` in this step
EndsIteration == mainPc = "processing" /\ mainPc' # "processing"

\* empty, whitespace-only, or not parsing as a notification
Malformed(l) == l.shape \in {"empty", "blank", "garbage"}

\* a notification with method "receive" that has an envelope
HasEnvelope(l) ==
    /\ l.shape = "json"
    /\ l.rpc # <<>>
    /\ l.rpc[1].method = "receive"
    /\ l.rpc[1].params # <<>>
    /\ l.rpc[1].params[1].envelope # <<>>

EnvelopeOf(l) == l.rpc[1].params[1].envelope[1]

HasSourceId(e) == e.source_number # None \/ e.source_uuid # None

\* sourceNumber when present, otherwise sourceUuid
SourceId(e) == IF e.source_number # None THEN e.source_number ELSE e.source_uuid

HasSentMessage(e) ==
    e.sync_message # <<>> /\ e.sync_message[1].sent_message # <<>>

SentOf(e) == e.sync_message[1].sent_message[1]

\* the text of the event: the dataMessage's, or else that of a sentMessage to
\* the source itself
EventText(e) ==
    IF e.data_message # <<>> THEN e.data_message[1].message
    ELSE IF HasSentMessage(e) /\ SentOf(e).destination = SourceId(e) THEN SentOf(e).message
    ELSE <<>>

HasLink(text) ==
    \E k \in DOMAIN text.words :
        tiktok_regex(text.words[k]) \/ instagram_regex(text.words[k])

\* receive, envelope, source identifier, extracted text and a link match
Qualifies(l) ==
    /\ HasEnvelope(l)
    /\ HasSourceId(EnvelopeOf(l))
    /\ EventText(EnvelopeOf(l)) # <<>>
    /\ HasLink(EventText(EnvelopeOf(l))[1])

\* a self-sync event whose sentMessage.destination differs from the source
ForeignSync(l) ==
    /\ HasEnvelope(l)
    /\ HasSourceId(EnvelopeOf(l))
    /\ HasSentMessage(EnvelopeOf(l))
    /\ SentOf(EnvelopeOf(l)).destination # SourceId(EnvelopeOf(l))

\* C8: a line that is empty, whitespace-only or does not parse as a notification
\* is discarded whatever its length and content: the iteration spawns no task,
\* no reply is sent or written, and the main loop reads on.
C8_MalformedDiscarded ==
    [][(EndsIteration /\ Malformed(line)) =>
           /\ mainPc' = "reading"
           /\ UNCHANGED <<tasks, chan, sent, stdin>>]_vars

\* C9: a task is spawned only by the main loop, one at a time, on a line that is
\* a "receive" notification with envelope, source identifier, extracted text and
\* a link match; the iteration on any other event spawns nothing, writes nothing,
\* leaves the channel, the tasks, the working directory and the writer as they
\* were, and the relay runs on, so that the tasks in flight stay in flight.
C9_OnlyQualifiedDispatch ==
    [][/\ Len(tasks') # Len(tasks) =>
            /\ EndsIteration
            /\ Qualifies(line)
            /\ Len(tasks') = Len(tasks) + 1
       /\ (EndsIteration /\ line.shape = "json" /\ ~Qualifies(line)) =>
            /\ UNCHANGED <<tasks, workdir, chan, sent, writer, stdin, received>>
            /\ mainPc' = "reading"]_vars

\* C10 as claimed: on a self-sync event whose sentMessage.destination differs
\* from the source no text is extracted and no task is spawned, whatever else
\* the envelope carries.
C10_ForeignSyncNoDispatch ==
    [][(EndsIteration /\ ForeignSync(line)) =>
           /\ TextContent(EnvelopeOf(line), SourceOf(EnvelopeOf(line))) = <<>>
           /\ tasks' = tasks]_vars

\* C10 as amended: the same, for an envelope that carries no dataMessage.
C10_ForeignSyncAloneNoDispatch ==
    [][(EndsIteration /\ ForeignSync(line) /\ EnvelopeOf(line).data_message = <<>>) =>
           /\ TextContent(EnvelopeOf(line), SourceOf(EnvelopeOf(line))) = <<>>
           /\ tasks' = tasks]_vars

\* the loop is handling a sentMessage with a link that went to somebody else,
\* in an envelope without dataMessage, and its iteration ends in "no text"
C10_Witness ==
    /\ mainPc = "processing"
    /\ ForeignSync(line)
    /\ EnvelopeOf(line).data_message = <<>>
    /\ SentOf(EnvelopeOf(line)).destination # None
    /\ SentOf(EnvelopeOf(line)).message # <<>>
    /\ HasLink(SentOf(EnvelopeOf(line)).message[1])
    /\ Iteration(line) = Skip("no text")

\* the text of the event on line l holds a TikTok link and an Instagram link
BothLinks(l) ==
    /\ HasEnvelope(l)
    /\ EventText(EnvelopeOf(l)) # <<>>
    /\ LET w == EventText(EnvelopeOf(l))[1].words
       IN  /\ \E k \in DOMAIN w : tiktok_regex(w[k])
           /\ \E k \in DOMAIN w : instagram_regex(w[k])

\* the leftmost TikTok link of the text of the event on line l
FirstTikTok(l) ==
    LET w == EventText(EnvelopeOf(l))[1].words
    IN  w[CHOOSE k \in DOMAIN w :
              tiktok_regex(w[k]) /\ \A j \in 1..(k - 1) : ~tiktok_regex(w[j])]

\* C11: one message dispatches at most one task: an iteration leaves the tasks
\* as they were or appends exactly one; and when the text holds both a TikTok
\* and an Instagram link, in either order, the task appended is for the leftmost
\* TikTok link.
C11_OneTaskTikTokFirst ==
    [][EndsIteration =>
          /\ Len(tasks') \in {Len(tasks), Len(tasks) + 1}
          /\ SubSeq(tasks', 1, Len(tasks)) = tasks
          /\ (Len(tasks') = Len(tasks) + 1 /\ BothLinks(line)) =>
                tasks'[Len(tasks')].url = FirstTikTok(line)]_vars

\* a text with the Instagram link first and the TikTok link second was handled,
\* and the one task it spawned is for the TikTok link
C11_Witness ==
    /\ inputs = "all"
    /\ mainPc = "reading"
    /\ Len(tasks) = 3
    /\ tasks[3].url = TikTokWww
    /\ tasks[3].pc = "start"

\* the number of characters
RECURSIVE Chars(_)
Chars(runs) == IF runs = <<>> THEN 0 ELSE Head(runs).n + Chars(Tail(runs))

\* the first c characters
RECURSIVE FirstChars(_, _)
FirstChars(runs, c) ==
    IF c = 0 \/ runs = <<>> THEN <<>>
    ELSE LET r == Head(runs)
         IN  IF c >= r.n THEN <<r>> \o FirstChars(Tail(runs), c - r.n)
             ELSE <<Run(r.kind, r.w, c)>>

\* the reply text the claim gives for an output: the (decoded, trimmed) output
\* when it has at most MaxReply characters, its first MaxReply characters and
\* the marker otherwise
ExpectedReply(stdout) ==
    LET output == trim(from_utf8_lossy(stdout))
    IN  IF Chars(output) <= MaxReply THEN ReplyText(output, FALSE)
        ELSE ReplyText(FirstChars(output, MaxReply), TRUE)

\* C12: every task whose opencode exited successfully gets a reply text, and it
\* is the output unchanged when the output has at most 3000 characters, and its
\* first 3000 characters followed by the marker when it has more.
C12_Truncation ==
    \A i \in TaskIds :
        /\ tasks[i].stage # "truncate"
        /\ (tasks[i].result # <<>> /\ tasks[i].result[1].kind = "content") =>
              tasks[i].result[1].text = ExpectedReply(tasks[i].result[1].stdout)

\* the reply of task i as the claims expect it on its way out: to the source of
\* the task's event, with the text analyze_video returned
ReplyOfTask(r) ==
    /\ r.id \in TaskIds
    /\ tasks[r.id].result # <<>>
    /\ r.recipient = tasks[r.id].source
    /\ r.message = tasks[r.id].result[1]

\* C13: every write to the transport is a send request whose recipient list is
\* exactly the source of the event its task was spawned for and whose message
\* is exactly the text that task sent; on the way there (in the channel, in the
\* writer's hands) a reply keeps its own recipient and its own text.
C13_FaithfulRequests ==
    /\ \A k \in DOMAIN stdin :
         /\ stdin[k].id \in TaskIds
         /\ tasks[stdin[k].id].result # <<>>
         /\ stdin[k].request =
              [jsonrpc |-> "2.0", method |-> "send",
               params |-> [recipient |-> <<tasks[stdin[k].id].source>>,
                           message |-> tasks[stdin[k].id].result[1]],
               id |-> "100"]
    /\ \A k \in DOMAIN chan : ReplyOfTask(chan[k])
    /\ writer.cur # <<>> => ReplyOfTask(writer.cur[1])

\* the replies of two tasks for different sources and different links are both
\* on stdin as whole requests, each to its own source
C13_Witness ==
    \E a, b \in DOMAIN stdin :
        /\ stdin[a].part = "tail" /\ stdin[b].part = "tail"
        /\ stdin[a].request.params.recipient = <<"+1555">>
        /\ stdin[b].request.params.recipient = <<"uuid-9">>
        /\ stdin[a].request.params.message.kind = "content"
        /\ stdin[b].request.params.message.kind = "content"
        /\ stdin[a].request.params.message # stdin[b].request.params.message

\* C14: whenever the main task awaits the next line, the end of the stream or a
\* read error can be delivered to it; a step of the main task from there either
\* takes one printed line or ends the loop for good, changing nothing else; and
\* once main has returned nothing runs any more: no read, no task, no write.
C14_ExitOnEndOfInput ==
    /\ [](mainPc = "reading" => ENABLED ReadEnd)
    /\ [](mainPc = "exited" => ~ENABLED Next)
    /\ [][/\ mainPc # "exited"
          /\ (mainPc = "reading" /\ mainPc' # "reading") =>
               \/ mainPc' = "processing" /\ pending' = pending - 1 /\ line' \in Feed
               \/ /\ mainPc' = "exited"
                  /\ UNCHANGED <<line, pending, tasks, workdir, chan, writer,
                                 stdin, stdinOpen, sent, received>>]_vars

\* main has returned at the end of the stream while a task was running and a
\* reply was queued
C14_Witness ==
    /\ mainPc = "exited"
    /\ \E i \in TaskIds : tasks[i].pc = "ffmpeg"
    /\ chan # <<>>

\* C15: lines are handled one at a time and in the order they arrive: a line is
\* taken only when no line is being handled, the iteration on it is over (its
\* task spawned, if any) before the next one is taken, and a spawned task is
\* for the line being handled and comes after all tasks spawned before it,
\* whose order never changes.
C15_ArrivalOrder ==
    /\ [](mainPc = "processing" <=> line # NoLine)
    /\ [][/\ (line' # line /\ line' # NoLine) =>
               /\ mainPc = "reading" /\ line = NoLine
               /\ mainPc' = "processing"
               /\ tasks' = tasks
          /\ Len(tasks') >= Len(tasks)
          /\ \A i \in DOMAIN tasks :
               tasks'[i].source = tasks[i].source /\ tasks'[i].url = tasks[i].url
          /\ Len(tasks') > Len(tasks) =>
               /\ mainPc = "processing" /\ mainPc' = "reading" /\ line' = NoLine
               /\ Qualifies(line)
               /\ Len(tasks') = Len(tasks) + 1
               /\ tasks'[Len(tasks')].source = SourceId(EnvelopeOf(line))
               /\ tasks'[Len(tasks')].pc = "start"]_vars

\* two lines with links have been handled, and the task of the second one was
\* spawned while the task of the first was already at work
C15_Witness ==
    /\ mainPc = "reading"
    /\ pending = 0
    /\ Len(tasks) = 2
    /\ tasks[1].source = "uuid-9" /\ tasks[1].pc = "ffmpeg"
    /\ tasks[2].source = "+1555" /\ tasks[2].pc = "start"

\* C16: the writer task never ends while the relay runs: it is always awaiting
\* a reply, writing or flushing, and can always take its next step, also after a
\* write has failed; a failed write leaves the writer awaiting the next reply,
\* with the failed reply neither written nor queued again; and the replies are
\* taken in the order they were sent.
C16_WriterSurvivesFailure ==
    /\ [](/\ writer.pc \in {"recv", "write_all", "flush"}
          /\ (Running /\ writer.pc = "recv" /\ chan # <<>>) => ENABLED WriterRecv
          /\ (Running /\ writer.pc = "write_all") => ENABLED WriterWrite
          /\ (Running /\ writer.pc = "flush") => ENABLED WriterFlush
          /\ sent = received \o Ids(chan))
    /\ [][(writer' # writer /\ writer.pc # "recv" /\ ~stdinOpen') =>
             /\ writer' = IdleWriter
             /\ chan' = chan
             /\ stdin' = stdin
             /\ received' = received]_vars

\* no write ever succeeded, and still the writer has taken and attempted two
\* replies and awaits the next
C16_Witness ==
    /\ ~stdinOpen
    /\ stdin = <<>>
    /\ Len(received) = 2
    /\ writer = IdleWriter
    /\ Running

\* C17: the main loop leaves the loop only by the end of the stream or a read
\* error: the iteration on a decoded receive event, whatever the length and the
\* characters of its line and of its text, ends with the main task reading on.
C17_ReceiveNeverEndsLoop ==
    [][/\ (EndsIteration /\ HasEnvelope(line)) => mainPc' = "reading"
       /\ (mainPc' \notin {"reading", "processing"} /\ mainPc' # mainPc) =>
             (mainPc = "reading" /\ mainPc' = "exited")]_vars

\* C18: a reply that was in the channel when the input stream closed is still
\* written before the process ends: when main has returned and the transport
\* was reading its input all along, every reply that was sent is on stdin as a
\* complete line.
C18_QueuedRepliesWritten ==
    (mainPc = "exited" /\ stdinOpen) =>
        \A k \in DOMAIN sent : LinesOf(sent[k]) # {}

\* the lines the transport has printed and the main loop has read
LinesRead == MaxLines - pending

\* C19: in every state the writes begun on stdin are at most as many as the
\* tasks spawned, which are at most as many as the lines read, a task being
\* spawned only in the iteration on a receive event with a link, one per event; every write
\* is for a task spawned earlier and goes to the source of that task's event;
\* and no task's reply is written twice.
C19_WritesTasksEvents ==
    /\ [](/\ Len(Heads) <= Len(tasks)
          /\ Len(tasks) <= LinesRead
          /\ \A k \in DOMAIN stdin :
               /\ stdin[k].id \in TaskIds
               /\ stdin[k].request.params.recipient = <<tasks[stdin[k].id].source>>
          /\ \A a, b \in DOMAIN Heads : Heads[a].id = Heads[b].id => a = b)
    /\ [][Len(tasks') # Len(tasks) =>
             /\ mainPc = "processing"
             /\ Qualifies(line)
             /\ Len(tasks') = Len(tasks) + 1]_vars

\* two lines read, two tasks spawned, one of them failed without a reply and
\* the other one's reply written: one write for two tasks
C19_Witness ==
    /\ LinesRead = 2
    /\ Len(tasks) = 2
    /\ tasks[2].pc = "failed"
    /\ tasks[1].pc = "done"
    /\ Len(Heads) = 1
    /\ LinesOf(1) # {}
    /\ writer = IdleWriter

\* a receive event with a source whose envelope carries a dataMessage
HasDataMessage(l) ==
    /\ HasEnvelope(l)
    /\ HasSourceId(EnvelopeOf(l))
    /\ EnvelopeOf(l).data_message # <<>>

\* C20: when the envelope carries a dataMessage the text extracted is that of
\* the dataMessage, whatever the syncMessage holds; when the dataMessage has no
\* text the iteration spawns no task and the loop reads on.
C20_DataMessageOnly ==
    [][(EndsIteration /\ HasDataMessage(line)) =>
          /\ TextContent(EnvelopeOf(line), SourceOf(EnvelopeOf(line)))
               = EnvelopeOf(line).data_message[1].message
          /\ EnvelopeOf(line).data_message[1].message = <<>> =>
               (tasks' = tasks /\ mainPc' = "reading")]_vars

\* the loop is handling an envelope with a dataMessage without text and a
\* sentMessage to the source itself that holds a link, and the iteration ends
\* in "no text"
C20_Witness ==
    /\ mainPc = "processing"
    /\ HasDataMessage(line)
    /\ EnvelopeOf(line).data_message[1].message = <<>>
    /\ HasSentMessage(EnvelopeOf(line))
    /\ SentOf(EnvelopeOf(line)).destination = SourceId(EnvelopeOf(line))
    /\ SentOf(EnvelopeOf(line)).message # <<>>
    /\ HasLink(SentOf(EnvelopeOf(line)).message[1])
    /\ Iteration(line) = Skip("no text")

\* C21: the source of an event is the envelope's sourceNumber when it has one
\* and its sourceUuid otherwise: a task spawned for the event replies to that
\* identifier, a sentMessage (in an envelope without dataMessage) gives text
\* exactly when its destination is that identifier and it has text; and the
\* iteration on an envelope with neither identifier spawns nothing and the loop
\* reads on.
C21_SourceIdentifier ==
    [][(EndsIteration /\ HasEnvelope(line)) =>
          LET e == EnvelopeOf(line)
              id == IF e.source_number # None THEN e.source_number ELSE e.source_uuid
          IN  /\ id = None => (tasks' = tasks /\ mainPc' = "reading")
              /\ Len(tasks') > Len(tasks) => tasks'[Len(tasks')].source = id
              /\ (id # None /\ e.data_message = <<>> /\ HasSentMessage(e)) =>
                    (TextContent(e, SourceOf(e)) # <<>>
                       <=> (SentOf(e).destination = id /\ SentOf(e).message # <<>>))]_vars

\* the loop is handling a note to self in an envelope that has a sourceUuid and
\* no sourceNumber, and the iteration ends in a task that replies to the UUID
C21_Witness ==
    /\ mainPc = "processing"
    /\ HasEnvelope(line)
    /\ EnvelopeOf(line).source_number = None
    /\ EnvelopeOf(line).source_uuid = "uuid-9"
    /\ EnvelopeOf(line).data_message = <<>>
    /\ HasSentMessage(EnvelopeOf(line))
    /\ SentOf(EnvelopeOf(line)).destination = "uuid-9"
    /\ Iteration(line) = Spawn("instagram", "uuid-9", InstaReel)

\* C22: every reply text a task sends, a content reply or a failure
\* description, has at most 3000 characters before the marker, if any.
C22_ReplyLength ==
    \A i \in TaskIds :
        tasks[i].result # <<>> => Chars(tasks[i].result[1].text.body) <= MaxReply

====
